---- MODULE Spec2Model ----
(***************************************************************************)
(* State-machine model of the multi-step form wizard:                      *)
(*   MultiStepForm (multistep-form.tsx, src/unnamed/part_001),             *)
(*   ItemForm      (src/app/components/item-form.tsx),                     *)
(*   SignatureForm / SignaturePad (signature-form.tsx, src/unnamed/part_000)*)
(*   ImageCropper  (crop-form.tsx, src/app/page.tsx lines 14-201).         *)
(*                                                                         *)
(* One action per event handler or effect.  A handler that calls a state   *)
(* setter is modelled together with the re-render it causes and the        *)
(* effects of that render (React runs them before the next user event).    *)
(*                                                                         *)
(* JavaScript values:                                                      *)
(*   - text of the plain inputs: TLA+ strings;                             *)
(*   - strings that the code inspects (price, the value of the amount      *)
(*     input): sequences of one-character strings;                         *)
(*   - numbers: records [k |-> "num", n, d] standing for n/d with d a      *)
(*     power of ten and n/d in lowest decimal form, or [k |-> "nan"];      *)
(*     binary floating-point rounding is not modelled;                     *)
(*   - null: the record [k |-> "null"]; a nullable string is               *)
(*     [k |-> "str", s |-> ...] or null.                                   *)
(***************************************************************************)
EXTENDS Integers, Sequences, FiniteSets, TLC

\* Bound on the number of field mutations (text change, ledger operation,
\* signature emission) plus presses of Submit plus file selections in one
\* session.
MaxEvents == 3

----------------------------------------------------------------------------
(* JavaScript values *)

null == [k |-> "null"]

Str(s) == [k |-> "str", s |-> s]

NaN == [k |-> "nan"]

RECURSIVE Normalise(_, _)
\* n/d in lowest decimal form: trailing zeros of the fraction dropped.
Normalise(n, d) ==
  IF d > 1 /\ n % 10 = 0 THEN Normalise(n \div 10, d \div 10)
  ELSE [k |-> "num", n |-> n, d |-> d]

Num(n) == [k |-> "num", n |-> n, d |-> 1]

Max(a, b) == IF a >= b THEN a ELSE b

Min(a, b) == IF a <= b THEN a ELSE b

\* ToNumber of a value that is a number or null (null converts to +0).
ToNumber(v) == IF v.k = "null" THEN Num(0) ELSE v

\* The * operator on numbers: NaN is absorbing.
NumMul(a, b) ==
  IF a.k = "nan" \/ b.k = "nan" THEN NaN
  ELSE Normalise(a.n * b.n, a.d * b.d)

\* The + operator on numbers: NaN is absorbing.
NumAdd(a, b) ==
  IF a.k = "nan" \/ b.k = "nan" THEN NaN
  ELSE LET d == Max(a.d, b.d)
       IN  Normalise(a.n * (d \div a.d) + b.n * (d \div b.d), d)

DigitChars == <<"0", "1", "2", "3", "4", "5", "6", "7", "8", "9">>

IsDigit(c) == \E i \in 1..10 : DigitChars[i] = c

DigitVal(c) == (CHOOSE i \in 1..10 : DigitChars[i] = c) - 1

RECURSIVE DigitsValue(_, _)
\* Value of a sequence of digits, most significant first, onto accumulator acc.
DigitsValue(s, acc) ==
  IF s = <<>> THEN acc ELSE DigitsValue(Tail(s), 10 * acc + DigitVal(Head(s)))

RECURSIVE Pow10(_)
Pow10(e) == IF e = 0 THEN 1 ELSE 10 * Pow10(e - 1)

AllDigits(s) == \A i \in 1..Len(s) : IsDigit(s[i])

\* Number(string) (ECMAScript StringToNumber) for strings over digits, "-",
\* "+", "." and other characters: "" is 0; an optional sign, digits and at most
\* one "." with at least one digit is that decimal; anything else is NaN.
\* Exponents, hexadecimal literals, Infinity and white space are outside the
\* alphabet of the inputs.
StringToNumber(s) ==
  IF s = <<>> THEN Num(0)
  ELSE
    LET signed == Head(s) \in {"-", "+"}
        sign   == IF Head(s) = "-" THEN -1 ELSE 1
        body   == IF signed THEN Tail(s) ELSE s
        dots   == {i \in 1..Len(body) : body[i] = "."}
    IN  IF dots = {} THEN
          IF body # <<>> /\ AllDigits(body)
          THEN Num(sign * DigitsValue(body, 0))
          ELSE NaN
        ELSE
          LET p    == CHOOSE i \in dots : TRUE
              ip   == SubSeq(body, 1, p - 1)
              fp   == SubSeq(body, p + 1, Len(body))
          IN  IF Cardinality(dots) = 1 /\ AllDigits(ip) /\ AllDigits(fp)
                 /\ Len(ip) + Len(fp) >= 1
              THEN Normalise(sign * DigitsValue(ip \o fp, 0), Pow10(Len(fp)))
              ELSE NaN

----------------------------------------------------------------------------
(* ItemForm: pure functions *)

\* The row appended by addItem.
NewItem(id) == [id |-> id, amount |-> Num(1), price |-> <<>>, description |-> ""]

\* items.map(...) of updateItem: every row whose id matches gets the field
\* replaced; amount goes through Number(value), price and description are
\* stored as given.
updateItem(items, id, field, value) ==
  [i \in 1..Len(items) |->
     IF items[i].id = id
     THEN IF field = "amount"
          THEN [items[i] EXCEPT !.amount = StringToNumber(value)]
          ELSE IF field = "price"
               THEN [items[i] EXCEPT !.price = value]
               ELSE [items[i] EXCEPT !.description = value]
     ELSE items[i]]

\* value.replace(",", ""): only the first comma dropped.
removeFirstComma(value) ==
  IF \E i \in 1..Len(value) : value[i] = ","
  THEN LET p == CHOOSE i \in 1..Len(value) :
                  /\ value[i] = ","
                  /\ \A j \in 1..(i - 1) : value[j] # ","
       IN  SubSeq(value, 1, p - 1) \o SubSeq(value, p + 1, Len(value))
  ELSE value

\* value.replace(/,/g, ""): every comma dropped.
removeComma(value) == SelectSeq(value, LAMBDA c : c # ",")

\* items.filter((item) => item.id !== id)
removeItem(items, id) == SelectSeq(items, LAMBDA item : item.id # id)

\* item.amount * Number(removeComma(item.price))
calculateItemTotal(item) ==
  NumMul(ToNumber(item.amount), StringToNumber(removeComma(item.price)))

RECURSIVE Reduce(_, _)
\* items.reduce((total, item) => total + calculateItemTotal(item), total)
Reduce(items, total) ==
  IF items = <<>> THEN total
  ELSE Reduce(Tail(items), NumAdd(total, calculateItemTotal(Head(items))))

\* reduce without its initial value 0: the first row seeds the total as it is.
calculateGrandTotalNoSeed(items) ==
  IF items = <<>> THEN Num(0) ELSE Reduce(Tail(items), ToNumber(Head(items).amount))

calculateGrandTotal(items) == Reduce(items, Num(0))

----------------------------------------------------------------------------
(* MultiStepForm: document, JSON and the storage key *)

initialFormData ==
  [step1 |-> [name |-> "", email |-> ""],
   step2 |-> [age |-> "", gender |-> ""],
   step3 |-> [bio |-> ""],
   step4 |-> [items |-> <<>>],
   step5 |-> [signatureImage |-> null]]

\* JSON.stringify of a FormData: a JSON text.  Strings, finite numbers and null
\* are written as they are; a NaN number is written as null.
JSONstringify(doc) ==
  [kind |-> "json",
   value |-> [doc EXCEPT !.step4.items =
                [i \in 1..Len(@) |->
                   [@[i] EXCEPT !.amount = IF @.k = "nan" THEN null ELSE @]]]]

\* Whether JSON.parse(text) returns (TRUE) or throws a SyntaxError (FALSE).
JSONparses(text) == text.kind = "json"

\* JSON.parse of a JSON text.
JSONparse(text) == text.value

\* A string that is not JSON text.
Raw(chars) == [kind |-> "raw", text |-> chars]

\* if (savedData): null and the empty string are falsy.
Truthy(savedData) == savedData # null /\ savedData # Raw(<<>>)

\* The value of the key "multistepFormData" in localStorage: Absent or a string.
Absent == [kind |-> "absent"]

getItem(store) == IF store = Absent THEN null ELSE store

\* persist with a write that is skipped while the key is absent.
persistIfPresent(store, doc) ==
  IF store = [kind |-> "absent"] THEN store ELSE JSONstringify(doc)

\* The key after the persist effect of a render whose formData is doc:
\* localStorage.setItem("multistepFormData", JSON.stringify(formData)).
persist(store, doc) == JSONstringify(doc)

\* prev + 1 without the upper limit.
nextStepUnclamped(prev) == prev + 1

\* Math.min(prev + 1, 5)
nextStep(prev) == Min(prev + 1, 5)

\* Math.max(prev - 1, 1)
prevStep(prev) == Max(prev - 1, 1)

\* { ...payload, [field]: value }: the payload with the field set, added when
\* the payload has no such field.
Spread(payload, field, value) ==
  [f \in DOMAIN payload \cup {field} |->
     IF f = field THEN value ELSE payload[f]]

\* setFormData updater of handleInputChange.
handleInputChange(prevData, step, field, value) ==
  [prevData EXCEPT ![step] = Spread(@, field, value)]

\* setFormData updater of updateItems.
updateItems(prevData, items) ==
  [prevData EXCEPT !.step4 = Spread(@, "items", items)]

\* updateSignature that keeps a signature already there.
updateSignatureKeepFirst(prevData, signatureImage) ==
  IF prevData.step5.signatureImage = [k |-> "null"]
  THEN [prevData EXCEPT !.step5 = Spread(@, "signatureImage", signatureImage)]
  ELSE prevData

\* setFormData updater of updateSignature.
updateSignature(prevData, signatureImage) ==
  [prevData EXCEPT !.step5 = Spread(@, "signatureImage", signatureImage)]

\* The navigation bar: which buttons are rendered and which are enabled.
PreviousShown(step) == TRUE

PreviousEnabled(step) == ~(step = 1)

NextShown(step) == step < 5

NextEnabled(step) == ~(step = 5)

\* Submit rendered one step early.
SubmitShownFromFour(step) == step >= 4

SubmitShown(step) == step = 5

\* The inputs each step renders: <<step key, field>>.
RenderedFields(step) ==
  CASE step = 1 -> {<<"step1", "name">>, <<"step1", "email">>}
    [] step = 2 -> {<<"step2", "age">>, <<"step2", "gender">>}
    [] step = 3 -> {<<"step3", "bio">>}
    [] OTHER    -> {}

----------------------------------------------------------------------------
(* Inputs *)

\* What the user types into a text input or picks in the radio group.
FieldInputs(field) ==
  CASE field = "age"    -> {"30"}
    [] field = "gender" -> {"male", "female", "other"}
    [] OTHER            -> {"a"}

\* Values of the amount input (type="number": a valid number string).
AmountInputs == {<<"3">>, <<"-", "2">>, <<"1", ".", "5">>}

\* Values NumericFormat (thousandSeparator=",") hands to the price onChange.
PriceInputs == {<<"1", ",", "0", "0", "0">>, <<"-">>}

DescriptionInputs == {"d"}

ItemFieldInputs(field) ==
  CASE field = "amount" -> AmountInputs
    [] field = "price"  -> PriceInputs
    [] OTHER            -> DescriptionInputs

\* What toDataURL("image/png") returns for the canvas.
PngDataURL(canvas) == Str("data:image/png;" \o canvas)

\* Outcomes of fetch: a response with ok, a response without, a rejection.
FetchOutcomes == {"ok", "notok", "reject"}

\* A document left by an earlier session: two rows were added, the first was
\* removed, the remaining one edited.
SavedDocument ==
  [step1 |-> [name |-> "a", email |-> ""],
   step2 |-> [age |-> "", gender |-> "other"],
   step3 |-> [bio |-> ""],
   step4 |-> [items |-> <<[id |-> 2, amount |-> Num(3),
                           price |-> <<"1", ",", "0", "0", "0">>,
                           description |-> "d"]>>],
   step5 |-> [signatureImage |-> PngDataURL("drawn")]]

\* A document in the key that has no email: JSON text that parses, written by
\* something other than this version of the form.
PartialDocument ==
  [step1 |-> [name |-> "a"],
   step2 |-> [age |-> "", gender |-> ""],
   step3 |-> [bio |-> ""],
   step4 |-> [items |-> <<>>],
   step5 |-> [signatureImage |-> null]]

\* What the key may hold when the page loads.
InitialStorage ==
  {Absent, Raw(<<>>), Raw(<<"{">>),
   JSONstringify(initialFormData), JSONstringify(SavedDocument),
   JSONstringify(PartialDocument)}

----------------------------------------------------------------------------
(* ImageCropper: pure functions and inputs *)

minWidth == 500

minHeight == 250

\* const maxSizeInBytes = 2 * 1024 * 1024
maxSizeInBytes == 2 * 1024 * 1024

\* file.size >= maxSizeInBytes: a file of exactly the limit refused too.
FileTooLargeFromLimit(file) == file.size >= maxSizeInBytes

\* file.size > maxSizeInBytes
FileTooLarge(file) == file.size > maxSizeInBytes

\* naturalWidth < 500 || naturalHeight < 250
TooSmall(image) ==
  image.naturalWidth < minWidth \/ image.naturalHeight < minHeight

\* useState<Crop>({ unit: "px", width: 500, height: 250, x: 0, y: 0 })
DefaultCrop == [x |-> 0, y |-> 0, width |-> 500, height |-> 250]

\* !cropVariable.width || !cropVariable.height
CropRegionEmpty(crop) == crop.width = 0 \/ crop.height = 0

\* What toDataURL("image/jpeg") returns for the canvas cropImage draws: the
\* region crop of the picture the img element shows.
JpegDataURL(image, crop) ==
  Str("data:image/jpeg;" \o image.shows \o "@" \o ToString(crop.x) \o ","
        \o ToString(crop.y) \o "+" \o ToString(crop.width) \o "x"
        \o ToString(crop.height))

\* The img element ReactCrop wraps, as first rendered: nothing decoded yet.
EmptyImg == [k |-> "img", shows |-> "", naturalWidth |-> 0, naturalHeight |-> 0]

\* The img element once it has loaded the data URL of file.
LoadedImg(file) ==
  [k |-> "img", shows |-> file.name, naturalWidth |-> file.naturalWidth,
   naturalHeight |-> file.naturalHeight]

\* The src state holding the data URL of file.
DataURL(file) == [k |-> "url", file |-> file]

\* Files the user picks: one byte over the size limit; 400x200; exactly at the
\* size limit and at the minimum dimensions; 600x300.
FileInputs ==
  {[name |-> "big", size |-> maxSizeInBytes + 1, naturalWidth |-> 600,
    naturalHeight |-> 300],
   [name |-> "small", size |-> 1000, naturalWidth |-> 400,
    naturalHeight |-> 200],
   [name |-> "edge", size |-> maxSizeInBytes, naturalWidth |-> 500,
    naturalHeight |-> 250],
   [name |-> "ok", size |-> 1000, naturalWidth |-> 600, naturalHeight |-> 300]}

\* Regions ReactCrop (aspect 16 / 9) hands to onChange: a click without a
\* drag, and a dragged region.
CropInputs ==
  {[x |-> 0, y |-> 0, width |-> 0, height |-> 0],
   [x |-> 0, y |-> 0, width |-> 320, height |-> 180]}

----------------------------------------------------------------------------
(* State *)

VARIABLES
  pc,            \* where the page is: "restore", "persist", "commit" (the mount
                 \* effects and the render they schedule), "persist again",
                 \* "commit again" (the same after a second run of the
                 \* effects), "ready", "crashed"
  currentStep,   \* MultiStepForm state
  formData,      \* MultiStepForm state
  queued,        \* state update queued by the restore effect, not yet rendered
  localStorage,  \* value of the key "multistepFormData"
  nextId,        \* ItemForm state; 0 while ItemForm is not mounted
  isOpenDraw,    \* SignatureForm state
  isEmpty,       \* SignaturePad state
  canvas,        \* SignatureCanvas content: "none" (not mounted), "blank", "drawn"
  inflight,      \* fetch calls awaiting their outcome, oldest first
  loaded,        \* history: the value of the key when the page loaded
  toast,         \* the toast raised by the last step: "none", "success", "error"
  issued,        \* history: ids handed out by addItem in this session, in order
  edits,         \* history: number of field mutations so far
  submits,       \* history: number of submitForm calls so far
  isOpenCrop,    \* SignatureForm state
  src,           \* ImageCropper state: null or the data URL of a file
  imgRef,        \* imgRef.current: null or the img element ReactCrop wraps
  cropVariable,  \* ImageCropper state
  decoding,      \* files handed to FileReader whose img.onload is still to run,
                 \* in the order they were selected
  selects,       \* history: number of file selections so far
  emitted,       \* history: the images handed to onSignatureChange, in order
  lastSelected   \* history: the file selected last in the mounted ImageCropper,
                 \* rejected or not; null before the first selection

vars ==
  <<pc, currentStep, formData, queued, localStorage, nextId, isOpenDraw,
    isEmpty, canvas, inflight, loaded, toast, issued, edits, submits,
    isOpenCrop, src, imgRef, cropVariable, decoding, selects, emitted,
    lastSelected>>

padVars == <<isOpenDraw, isEmpty, canvas>>

cropVars == <<isOpenCrop, src, imgRef, cropVariable>>

NoUpdate == [k |-> "none"]

Init ==
  /\ pc = "restore"
  /\ currentStep = 1
  /\ formData = initialFormData
  /\ queued = NoUpdate
  /\ localStorage \in InitialStorage
  /\ loaded = localStorage
  /\ nextId = 0
  /\ isOpenDraw = FALSE
  /\ isEmpty = TRUE
  /\ canvas = "none"
  /\ inflight = <<>>
  /\ toast = "none"
  /\ issued = <<>>
  /\ edits = 0
  /\ submits = 0
  /\ isOpenCrop = FALSE
  /\ src = null
  /\ imgRef = null
  /\ cropVariable = DefaultCrop
  /\ decoding = <<>>
  /\ selects = 0
  /\ emitted = <<>>
  /\ lastSelected = null

----------------------------------------------------------------------------
(* Mount: the two effects of the first render, then the render they cause *)

\* A restore effect that reads the key and never calls setFormData.
RestoreEffectNeverSets ==
  /\ pc = "restore"
  /\ pc' = "persist"
  /\ toast' = "none"
  /\ UNCHANGED <<cropVars, decoding, selects, emitted, loaded, currentStep,
                 formData, queued, localStorage, nextId, isOpenDraw, isEmpty,
                 canvas, inflight, issued, edits, submits, lastSelected>>

\* useEffect(() => { getItem; if (savedData) setFormData(JSON.parse(savedData));
\* setIsLoading(false) }, []).  A SyntaxError thrown by JSON.parse is not
\* caught: the remaining effect of the component does not run and React
\* unmounts the tree.
RestoreEffect ==
  /\ pc = "restore"
  /\ LET savedData == getItem(localStorage)
     IN  IF Truthy(savedData)
         THEN IF JSONparses(savedData)
              THEN /\ queued' = [k |-> "set", data |-> JSONparse(savedData)]
                   /\ pc' = "persist"
              ELSE /\ queued' = queued
                   /\ pc' = "crashed"
         ELSE /\ queued' = queued
              /\ pc' = "persist"
  /\ toast' = "none"
  /\ UNCHANGED <<cropVars, decoding, selects, emitted, loaded, currentStep,
                 formData, localStorage, nextId, padVars, inflight, issued,
                 edits, submits, lastSelected>>

\* useEffect(() => { setItem(JSON.stringify(formData)) }, [formData]) of the
\* first render: formData is still initialFormData.
PersistEffect ==
  /\ pc = "persist"
  /\ localStorage' = persist(localStorage, formData)
  /\ pc' = "commit"
  /\ toast' = "none"
  /\ UNCHANGED <<cropVars, decoding, selects, emitted, loaded, currentStep,
                 formData, queued, nextId, padVars, inflight, issued, edits,
                 submits, lastSelected>>

\* The restore effect run a second time before the render it scheduled (a
\* development build under React.StrictMode runs the effects of a mounted
\* component again): it reads the key as the first persist effect left it,
\* and its setFormData is queued behind that of the first run, so it is the
\* one the render ends with.
SecondRestoreEffect ==
  /\ pc = "commit"
  /\ LET savedData == getItem(localStorage)
     IN  IF Truthy(savedData)
         THEN IF JSONparses(savedData)
              THEN /\ queued' = [k |-> "set", data |-> JSONparse(savedData)]
                   /\ pc' = "persist again"
              ELSE /\ queued' = queued
                   /\ pc' = "crashed"
         ELSE /\ queued' = queued
              /\ pc' = "persist again"
  /\ toast' = "none"
  /\ UNCHANGED <<cropVars, decoding, selects, emitted, loaded, currentStep,
                 formData, localStorage, nextId, padVars, inflight, issued,
                 edits, submits, lastSelected>>

\* The persist effect run a second time: formData is still initialFormData.
SecondPersistEffect ==
  /\ pc = "persist again"
  /\ localStorage' = persist(localStorage, formData)
  /\ pc' = "commit again"
  /\ toast' = "none"
  /\ UNCHANGED <<cropVars, decoding, selects, emitted, loaded, currentStep,
                 formData, queued, nextId, padVars, inflight, issued, edits,
                 submits, lastSelected>>

\* The render the restore effect scheduled, and the persist effect of that
\* render (formData changed).  Without a queued update nothing re-renders.
MountCommit ==
  /\ pc \in {"commit", "commit again"}
  /\ IF queued.k = "set"
     THEN /\ formData' = queued.data
          /\ localStorage' = persist(localStorage, formData')
     ELSE UNCHANGED <<formData, localStorage>>
  /\ queued' = NoUpdate
  /\ pc' = "ready"
  /\ toast' = "none"
  /\ UNCHANGED <<cropVars, decoding, selects, emitted, loaded, currentStep,
                 nextId, padVars, inflight, issued, edits, submits,
                 lastSelected>>

----------------------------------------------------------------------------
(* MultiStepForm handlers *)

\* A modal dialog is open: the page behind it takes no clicks.
ModalOpen == isOpenDraw \/ isOpenCrop

\* State of the step components after currentStep becomes step: ItemForm
\* mounts at step 4 with useState(items.length + 1); SignatureForm and
\* SignaturePad mount at step 5 with their initial state (ImageCropper is
\* mounted by the crop dialog).
MountStep(step) ==
  /\ nextId' = IF step = 4 THEN Len(formData.step4.items) + 1 ELSE 0
  /\ isOpenDraw' = FALSE
  /\ isEmpty' = TRUE
  /\ canvas' = "none"
  /\ isOpenCrop' = FALSE
  /\ src' = null
  /\ imgRef' = null
  /\ cropVariable' = DefaultCrop

\* onChange of a rendered input: handleInputChange, the render, the persist
\* effect.
HandleInputChange(step, field, value) ==
  /\ pc = "ready"
  /\ <<step, field>> \in RenderedFields(currentStep)
  /\ edits + submits + selects < MaxEvents
  /\ formData' = handleInputChange(formData, step, field, value)
  /\ localStorage' = persist(localStorage, formData')
  /\ edits' = edits + 1
  /\ toast' = "none"
  /\ UNCHANGED <<cropVars, decoding, selects, emitted, pc, loaded, currentStep,
                 queued, nextId, padVars, inflight, issued, submits,
                 lastSelected>>

\* Next button.
NextStep ==
  /\ pc = "ready"
  /\ ~ModalOpen
  /\ NextShown(currentStep) /\ NextEnabled(currentStep)
  /\ currentStep' = nextStep(currentStep)
  /\ MountStep(currentStep')
  /\ toast' = "none"
  /\ UNCHANGED <<decoding, selects, emitted, pc, loaded, formData, queued,
                 localStorage, inflight, issued, edits, submits, lastSelected>>

\* Previous button.
PrevStep ==
  /\ pc = "ready"
  /\ ~ModalOpen
  /\ PreviousShown(currentStep) /\ PreviousEnabled(currentStep)
  /\ currentStep' = prevStep(currentStep)
  /\ MountStep(currentStep')
  /\ toast' = "none"
  /\ UNCHANGED <<decoding, selects, emitted, pc, loaded, formData, queued,
                 localStorage, inflight, issued, edits, submits, lastSelected>>

\* Submit button: submitForm up to its await.  The body is the formData of
\* the render whose button was pressed.  atSubmit is history: the stored value
\* when submit was invoked.
SubmitForm ==
  /\ pc = "ready"
  /\ ~ModalOpen
  /\ SubmitShown(currentStep)
  /\ edits + submits + selects < MaxEvents
  /\ inflight' = Append(inflight, [body |-> JSONstringify(formData),
                                   atSubmit |-> localStorage])
  /\ submits' = submits + 1
  /\ toast' = "none"
  /\ UNCHANGED <<cropVars, decoding, selects, emitted, pc, loaded, currentStep,
                 formData, queued, localStorage, nextId, padVars, issued,
                 edits, lastSelected>>

\* inflight without its i-th element.
Without(seq, i) == SubSeq(seq, 1, i - 1) \o SubSeq(seq, i + 1, Len(seq))

\* SubmitSettled with a success branch that toasts but leaves the key.
SubmitSettledKeepsKey(i, outcome) ==
  /\ pc = "ready"
  /\ i \in 1..Len(inflight)
  /\ inflight' = Without(inflight, i)
  /\ localStorage' = localStorage
  /\ toast' = CASE outcome = "ok" -> "success"
                [] outcome = "notok" -> "error"
                [] OTHER -> "none"
  /\ UNCHANGED <<cropVars, decoding, selects, emitted, pc, loaded, currentStep,
                 formData, queued, nextId, padVars, issued, edits, submits,
                 lastSelected>>

\* SubmitSettled with a success branch that also puts the form back to its
\* first step and the default document.
SubmitSettledResetsForm(i, outcome) ==
  /\ pc = "ready"
  /\ i \in 1..Len(inflight)
  /\ inflight' = Without(inflight, i)
  /\ CASE outcome = "ok"    -> /\ localStorage' = [kind |-> "absent"]
                               /\ toast' = "success"
                               /\ formData' = initialFormData
                               /\ currentStep' = 1
       [] outcome = "notok" -> /\ localStorage' = localStorage
                               /\ toast' = "error"
                               /\ UNCHANGED <<lastSelected, formData, currentStep>>
       [] OTHER             -> /\ localStorage' = localStorage
                               /\ toast' = "none"
                               /\ UNCHANGED <<lastSelected, formData, currentStep>>
  /\ UNCHANGED <<cropVars, decoding, selects, emitted, pc, loaded, queued,
                 nextId, padVars, issued, edits, submits, lastSelected>>

\* submitForm after its await, for the i-th pending fetch: response.ok removes
\* the key and toasts success; another response toasts the error; a rejected
\* fetch throws out of submitForm (nothing catches it, nothing is toasted).
SubmitSettled(i, outcome) ==
  /\ pc = "ready"
  /\ i \in 1..Len(inflight)
  /\ inflight' = Without(inflight, i)
  /\ CASE outcome = "ok"    -> /\ localStorage' = Absent
                               /\ toast' = "success"
       [] outcome = "notok" -> /\ localStorage' = localStorage
                               /\ toast' = "error"
       [] OTHER             -> /\ localStorage' = localStorage
                               /\ toast' = "none"
  /\ UNCHANGED <<cropVars, decoding, selects, emitted, pc, loaded, currentStep,
                 formData, queued, nextId, padVars, issued, edits, submits,
                 lastSelected>>

----------------------------------------------------------------------------
(* ItemForm handlers (rendered at step 4) *)

\* The ids of the rows ItemForm renders.
RenderedIds == {formData.step4.items[i].id : i \in 1..Len(formData.step4.items)}

\* Add Item button: addItem, updateItems in the parent, the render, the
\* persist effect.
AddItem ==
  /\ pc = "ready"
  /\ currentStep = 4
  /\ edits + submits + selects < MaxEvents
  /\ formData' = updateItems(formData,
                             Append(formData.step4.items, NewItem(nextId)))
  /\ nextId' = nextId + 1
  /\ issued' = Append(issued, nextId)
  /\ localStorage' = persist(localStorage, formData')
  /\ edits' = edits + 1
  /\ toast' = "none"
  /\ UNCHANGED <<cropVars, decoding, selects, emitted, pc, loaded, currentStep,
                 queued, padVars, inflight, submits, lastSelected>>

\* onChange of an input of the row with this id.
UpdateItem(id, field, value) ==
  /\ pc = "ready"
  /\ currentStep = 4
  /\ id \in RenderedIds
  /\ edits + submits + selects < MaxEvents
  /\ formData' = updateItems(formData,
                             updateItem(formData.step4.items, id, field, value))
  /\ localStorage' = persist(localStorage, formData')
  /\ edits' = edits + 1
  /\ toast' = "none"
  /\ UNCHANGED <<cropVars, decoding, selects, emitted, pc, loaded, currentStep,
                 queued, nextId, padVars, inflight, issued, submits,
                 lastSelected>>

\* Remove button of the row with this id.
RemoveItem(id) ==
  /\ pc = "ready"
  /\ currentStep = 4
  /\ id \in RenderedIds
  /\ edits + submits + selects < MaxEvents
  /\ formData' = updateItems(formData, removeItem(formData.step4.items, id))
  /\ localStorage' = persist(localStorage, formData')
  /\ edits' = edits + 1
  /\ toast' = "none"
  /\ UNCHANGED <<cropVars, decoding, selects, emitted, pc, loaded, currentStep,
                 queued, nextId, padVars, inflight, issued, submits,
                 lastSelected>>

----------------------------------------------------------------------------
(* SignatureForm / SignaturePad handlers (rendered at step 5) *)

\* "Open Signature Pad": the dialog opens and mounts an empty SignatureCanvas.
OpenPad ==
  /\ pc = "ready"
  /\ currentStep = 5
  /\ ~ModalOpen
  /\ isOpenDraw' = TRUE
  /\ canvas' = "blank"
  /\ toast' = "none"
  /\ UNCHANGED <<cropVars, decoding, selects, emitted, pc, loaded, currentStep,
                 formData, queued, localStorage, nextId, isEmpty, inflight,
                 issued, edits, submits, lastSelected>>

\* A stroke on the canvas: onBegin runs handleDrawStart.
Draw ==
  /\ pc = "ready"
  /\ isOpenDraw
  /\ canvas' = "drawn"
  /\ isEmpty' = FALSE
  /\ toast' = "none"
  /\ UNCHANGED <<cropVars, decoding, selects, emitted, pc, loaded, currentStep,
                 formData, queued, localStorage, nextId, isOpenDraw, inflight,
                 issued, edits, submits, lastSelected>>

\* Clear button.
Clear ==
  /\ pc = "ready"
  /\ isOpenDraw
  /\ canvas' = "blank"
  /\ isEmpty' = TRUE
  /\ toast' = "none"
  /\ UNCHANGED <<cropVars, decoding, selects, emitted, pc, loaded, currentStep,
                 formData, queued, localStorage, nextId, isOpenDraw, inflight,
                 issued, edits, submits, lastSelected>>

\* save that returns without emitting while the pad is marked empty.
SaveOnlyWithStrokes ==
  /\ ~isEmpty
  /\ pc = "ready"
  /\ isOpenDraw
  /\ edits + submits + selects < MaxEvents
  /\ formData' = updateSignature(formData, PngDataURL(canvas))
  /\ localStorage' = persist(localStorage, formData')
  /\ isOpenDraw' = FALSE
  /\ canvas' = "none"
  /\ emitted' = Append(emitted, PngDataURL(canvas))
  /\ edits' = edits + 1
  /\ toast' = "none"
  /\ UNCHANGED <<cropVars, decoding, selects, pc, loaded, currentStep, queued,
                 nextId, isEmpty, inflight, issued, submits, lastSelected>>

\* Save button of the pad: save, handleSave, updateSignature, the render (the
\* dialog closes and the canvas unmounts), the persist effect.
Save ==
  /\ pc = "ready"
  /\ isOpenDraw
  /\ edits + submits + selects < MaxEvents
  /\ formData' = updateSignature(formData, PngDataURL(canvas))
  /\ localStorage' = persist(localStorage, formData')
  /\ isOpenDraw' = FALSE
  /\ canvas' = "none"
  /\ emitted' = Append(emitted, PngDataURL(canvas))
  /\ edits' = edits + 1
  /\ toast' = "none"
  /\ UNCHANGED <<cropVars, decoding, selects, pc, loaded, currentStep, queued,
                 nextId, isEmpty, inflight, issued, submits, lastSelected>>

\* Cancel button, Escape or a click outside: the dialog closes.
ClosePad ==
  /\ pc = "ready"
  /\ isOpenDraw
  /\ isOpenDraw' = FALSE
  /\ canvas' = "none"
  /\ toast' = "none"
  /\ UNCHANGED <<cropVars, decoding, selects, emitted, pc, loaded, currentStep,
                 formData, queued, localStorage, nextId, isEmpty, inflight,
                 issued, edits, submits, lastSelected>>

----------------------------------------------------------------------------
(* ImageCropper handlers (rendered in the crop dialog at step 5) *)

\* "Upload Signature": the dialog opens and mounts ImageCropper.
OpenCrop ==
  /\ pc = "ready"
  /\ currentStep = 5
  /\ ~ModalOpen
  /\ isOpenCrop' = TRUE
  /\ src' = null
  /\ imgRef' = null
  /\ cropVariable' = DefaultCrop
  /\ toast' = "none"
  /\ UNCHANGED <<pc, loaded, currentStep, formData, queued, localStorage,
                 nextId, padVars, inflight, issued, edits, submits, decoding,
                 selects, emitted, lastSelected>>

\* onChange of the file input: handleFileChange up to reader.readAsDataURL.
\* A file over the size limit is refused at once; any other goes to the
\* reader, whatever is already being read.
SelectFile(file) ==
  /\ pc = "ready"
  /\ isOpenCrop
  /\ edits + submits + selects < MaxEvents
  /\ selects' = selects + 1
  /\ IF FileTooLarge(file)
     THEN /\ toast' = "error"
          /\ decoding' = decoding
     ELSE /\ toast' = "none"
          /\ decoding' = Append(decoding, file)
  /\ lastSelected' = file
  /\ UNCHANGED <<pc, loaded, currentStep, formData, queued, localStorage,
                 nextId, padVars, inflight, issued, edits, submits, cropVars,
                 emitted>>

\* reader.onload and img.onload of the i-th file being decoded: too small a
\* picture is refused with a toast, any other becomes src.  Rendering a src
\* for the first time mounts the img element; a later src goes to the same
\* element, which keeps what it shows until the new picture has loaded.
FileDecoded(i) ==
  /\ pc = "ready"
  /\ i \in 1..Len(decoding)
  /\ decoding' = Without(decoding, i)
  /\ IF TooSmall(decoding[i])
     THEN /\ toast' = "error"
          /\ UNCHANGED <<lastSelected, src, imgRef>>
     ELSE /\ toast' = "none"
          /\ src' = DataURL(decoding[i])
          /\ imgRef' = IF imgRef = null THEN EmptyImg ELSE imgRef
  /\ UNCHANGED <<pc, loaded, currentStep, formData, queued, localStorage,
                 nextId, padVars, inflight, issued, edits, submits, isOpenCrop,
                 cropVariable, selects, emitted, lastSelected>>

\* The img element finishes loading the data URL in src.
ImgLoad ==
  /\ pc = "ready"
  /\ src # null
  /\ imgRef # LoadedImg(src.file)
  /\ imgRef' = LoadedImg(src.file)
  /\ toast' = "none"
  /\ UNCHANGED <<pc, loaded, currentStep, formData, queued, localStorage,
                 nextId, padVars, inflight, issued, edits, submits, isOpenCrop,
                 src, cropVariable, decoding, selects, emitted, lastSelected>>

\* onChange of ReactCrop (rendered once src is set): setCropVariable(newCrop).
SetCropVariable(newCrop) ==
  /\ pc = "ready"
  /\ src # null
  /\ newCrop # cropVariable
  /\ cropVariable' = newCrop
  /\ toast' = "none"
  /\ UNCHANGED <<pc, loaded, currentStep, formData, queued, localStorage,
                 nextId, padVars, inflight, issued, edits, submits, isOpenCrop,
                 src, imgRef, decoding, selects, emitted, lastSelected>>

\* cropImage with the check of the picture's dimensions left out.
CropImageNoFloor ==
  /\ pc = "ready"
  /\ isOpenCrop
  /\ IF imgRef = null \/ CropRegionEmpty(cropVariable)
     THEN /\ toast' = "error"
          /\ UNCHANGED <<lastSelected, formData, localStorage, edits, emitted>>
     ELSE /\ edits + submits + selects < MaxEvents
          /\ formData' = updateSignature(formData,
                                          JpegDataURL(imgRef, cropVariable))
          /\ localStorage' = persist(localStorage, formData')
          /\ emitted' = Append(emitted, JpegDataURL(imgRef, cropVariable))
          /\ edits' = edits + 1
          /\ toast' = "none"
  /\ UNCHANGED <<pc, loaded, currentStep, queued, nextId, padVars, inflight,
                 issued, submits, cropVars, decoding, selects, lastSelected>>

\* Save button of the cropper: cropImage and, when it emits, handleCrop,
\* updateSignature, the render, the persist effect.  The dialog stays open.
\* (getContext("2d") of a canvas just created returns a context.)
CropImage ==
  /\ pc = "ready"
  /\ isOpenCrop
  /\ IF imgRef = null \/ CropRegionEmpty(cropVariable)
     THEN /\ toast' = "error"
          /\ UNCHANGED <<lastSelected, formData, localStorage, edits, emitted>>
     ELSE IF TooSmall(imgRef)
          THEN /\ toast' = "error"
               /\ UNCHANGED <<lastSelected, formData, localStorage, edits, emitted>>
          ELSE /\ edits + submits + selects < MaxEvents
               /\ formData' = updateSignature(formData,
                                               JpegDataURL(imgRef, cropVariable))
               /\ localStorage' = persist(localStorage, formData')
               /\ emitted' = Append(emitted, JpegDataURL(imgRef, cropVariable))
               /\ edits' = edits + 1
               /\ toast' = "none"
  /\ UNCHANGED <<pc, loaded, currentStep, queued, nextId, padVars, inflight,
                 issued, submits, cropVars, decoding, selects, lastSelected>>

\* Cancel button, Escape or a click outside: the dialog closes and
\* ImageCropper unmounts.  A file still being decoded for it that would have
\* been accepted ends in setSrc of the unmounted component, which does
\* nothing: it is dropped here.  One that is too small still raises its toast.
CloseCrop ==
  /\ pc = "ready"
  /\ isOpenCrop
  /\ isOpenCrop' = FALSE
  /\ src' = null
  /\ imgRef' = null
  /\ cropVariable' = DefaultCrop
  /\ decoding' = SelectSeq(decoding, TooSmall)
  /\ toast' = "none"
  /\ lastSelected' = null
  /\ UNCHANGED <<pc, loaded, currentStep, formData, queued, localStorage,
                 nextId, padVars, inflight, issued, edits, submits, selects,
                 emitted>>

----------------------------------------------------------------------------
(* Specification *)

Next ==
  \/ RestoreEffect
  \/ PersistEffect
  \/ MountCommit
  \/ \E sf \in RenderedFields(currentStep) :
       \E value \in FieldInputs(sf[2]) : HandleInputChange(sf[1], sf[2], value)
  \/ NextStep
  \/ PrevStep
  \/ SubmitForm
  \/ \E i \in 1..Len(inflight) : \E outcome \in FetchOutcomes :
       SubmitSettled(i, outcome)
  \/ AddItem
  \/ \E id \in RenderedIds : \E field \in {"amount", "price", "description"} :
       \E value \in ItemFieldInputs(field) : UpdateItem(id, field, value)
  \/ \E id \in RenderedIds : RemoveItem(id)
  \/ OpenPad
  \/ Draw
  \/ Clear
  \/ Save
  \/ ClosePad
  \/ OpenCrop
  \/ \E file \in FileInputs : SelectFile(file)
  \/ \E i \in 1..Len(decoding) : FileDecoded(i)
  \/ ImgLoad
  \/ \E newCrop \in CropInputs : SetCropVariable(newCrop)
  \/ CropImage
  \/ CloseCrop

Spec == Init /\ [][Next]_vars

\* The page in a build that may run the mount effects a second time.
NextStrict ==
  \/ Next
  \/ SecondRestoreEffect
  \/ SecondPersistEffect

SpecStrict == Init /\ [][NextStrict]_vars

----------------------------------------------------------------------------
(* Properties *)

Items == formData.step4.items

\* C1: every identifier addItem issues in a session is strictly greater than
\* every identifier issued before it, so none is issued twice - also across
\* removals, across a remount of ItemForm and from a restored ledger.
C1_IssuedIdsStrictlyIncreasing ==
  \A i \in 1..Len(issued) : \A j \in 1..Len(issued) :
    i < j => issued[i] < issued[j]

\* C2: when a pending submission (made at step 5) is answered with a success
\* response, the step that processes it leaves the key absent from storage and
\* toasts success.
C2_SuccessClearsStorage ==
  [][\A i \in 1..Len(inflight) :
       SubmitSettled(i, "ok") =>
         /\ localStorage' = Absent
         /\ toast' = "success"
         /\ submits > 0]_vars

C2_Witness ==
  /\ toast = "success"
  /\ localStorage = Absent
  /\ loaded # Absent
  /\ currentStep = 5

\* C3: when a pending submission fails - the fetch rejects or the response is
\* not ok - the step that processes it toasts the error and the key is still
\* in storage with the value it had when submit was invoked.
C3_FailureReportedStorageKept ==
  [][\A i \in 1..Len(inflight) : \A outcome \in {"notok", "reject"} :
       SubmitSettled(i, outcome) =>
         /\ toast' = "error"
         /\ localStorage' # Absent
         /\ localStorage' = inflight[i].atSubmit]_vars

\* C4: a page that loaded with a stored value that is not JSON does not fail:
\* it mounts, and its working document is the default document.
C4_MalformedStorageFallsBack ==
  (~JSONparses(loaded) /\ loaded # Absent) =>
     /\ pc # "crashed"
     /\ formData = initialFormData

\* C5: every step that mutates a field (text or radio change, ledger add,
\* update or remove, signature emission) ends with the key holding the
\* serialization of the whole working document, whatever the key held before.
C5_PersistAfterEveryMutation ==
  [][edits' > edits => localStorage' = JSONstringify(formData')]_vars

C5_Witness ==
  /\ loaded = Absent
  /\ edits >= 2
  /\ formData.step1.name = "a"
  /\ Len(Items) >= 1
  /\ localStorage = JSONstringify(formData)

\* C6: once mount has completed and before the first field mutation, the
\* working document is the document the key held when the page loaded, if it
\* held a well-formed one, and the default document if the key was absent.
C6_RestoreAtMount ==
  (pc = "ready" /\ edits = 0) =>
     /\ JSONparses(loaded) => formData = JSONparse(loaded)
     /\ loaded = Absent => formData = initialFormData

C6_Witness ==
  /\ pc = "ready"
  /\ edits = 0
  /\ loaded = JSONstringify(SavedDocument)
  /\ formData = SavedDocument
  /\ formData # initialFormData

C8_ControlsFollowStep ==
  /\ [](/\ currentStep \in 1..4 =>
             /\ PreviousShown(currentStep)
             /\ NextShown(currentStep)
             /\ ~SubmitShown(currentStep)
        /\ currentStep = 5 =>
             /\ PreviousShown(currentStep)
             /\ SubmitShown(currentStep)
             /\ ~NextShown(currentStep))
  /\ [][/\ submits' > submits => (currentStep = 5 /\ currentStep' = 5)
        /\ Len(inflight') < Len(inflight) => currentStep' = currentStep]_vars

C8_Witness ==
  /\ currentStep = 5
  /\ submits > 0
  /\ inflight # <<>>

RECURSIVE SumOfLineTotals(_, _)
\* The sum of the line totals of the rows with index in S.
SumOfLineTotals(items, S) ==
  IF S = {} THEN Num(0)
  ELSE LET i == CHOOSE x \in S : TRUE
       IN  NumAdd(calculateItemTotal(items[i]), SumOfLineTotals(items, S \ {i}))

\* C9: whatever add, update and remove operations produced the ledger, the
\* grand total is the sum of the line totals of exactly the rows in it (0 for
\* an empty ledger), and stays the same under every reordering of the rows.
C9_GrandTotalIsSum ==
  /\ calculateGrandTotal(Items) = SumOfLineTotals(Items, 1..Len(Items))
  /\ Items = <<>> => calculateGrandTotal(Items) = Num(0)
  /\ \A p \in Permutations(1..Len(Items)) :
       calculateGrandTotal([i \in 1..Len(Items) |-> Items[p[i]]])
         = calculateGrandTotal(Items)

C9_Witness ==
  /\ edits > 0
  /\ Len(Items) >= 2
  /\ calculateItemTotal(Items[1]) # calculateItemTotal(Items[2])
  /\ calculateItemTotal(Items[2]) # Num(0)
  /\ calculateGrandTotal(Items).k = "num"

\* A decimal string with optional commas: digits, commas and at most one ".",
\* with at least one digit.
IsDecimalWithCommas(s) ==
  /\ \A i \in 1..Len(s) : IsDigit(s[i]) \/ s[i] \in {",", "."}
  /\ \E i \in 1..Len(s) : IsDigit(s[i])
  /\ Cardinality({i \in 1..Len(s) : s[i] = "."}) <= 1

RECURSIVE DecimalValueFrom(_, _, _, _)
\* The number a decimal string with commas denotes, read left to right: n is
\* the digits so far, d the power of ten they are divided by.
DecimalValueFrom(s, n, d, inFraction) ==
  IF s = <<>> THEN Normalise(n, d)
  ELSE IF Head(s) = "," THEN DecimalValueFrom(Tail(s), n, d, inFraction)
  ELSE IF Head(s) = "." THEN DecimalValueFrom(Tail(s), n, d, TRUE)
  ELSE DecimalValueFrom(Tail(s), 10 * n + DigitVal(Head(s)),
                        IF inFraction THEN 10 * d ELSE d, inFraction)

DecimalValue(s) == DecimalValueFrom(s, 0, 1, FALSE)

ThousandPrice == <<"1", ",", "0", "0", "0">>

\* Prices and quantities the line total is evaluated on directly.
SamplePrices ==
  {<<>>, ThousandPrice, <<"2", ".", "5">>, <<".", "5">>, <<"1", "0", ".">>,
   <<"1", ",", "0", "0", "0", ",", "0", "0", "0">>,
   <<"1", ",", "2", "3", "4", ".", "5", "0">>}

SampleAmounts == {Num(0), Num(1), Num(3), Num(-2), Normalise(15, 10)}

\* The line total of each sample row against the number its price denotes.
SampleRowsAgree ==
  \A amount \in SampleAmounts : \A price \in SamplePrices :
    LET item == [id |-> 1, amount |-> amount, price |-> price,
                 description |-> ""]
    IN  /\ IsDecimalWithCommas(price) =>
             calculateItemTotal(item) = NumMul(amount, DecimalValue(price))
        /\ price = <<>> => calculateItemTotal(item) = Num(0)
        /\ (amount = Num(3) /\ price = ThousandPrice) =>
             calculateItemTotal(item) = Num(3000)
        /\ (amount = Num(-2) /\ price = ThousandPrice) =>
             calculateItemTotal(item) = Num(-2000)

\* C10: the line total of a row whose price is a decimal string with optional
\* commas is its quantity times the number the price denotes once the commas
\* are dropped; quantity 3 at "1,000" gives 3000; an empty price gives 0 for
\* every quantity; a negative quantity is used as it is.  Stated of every row
\* of the ledger in every reachable state and of the sample rows.
C10_LineTotal ==
  /\ \A i \in 1..Len(Items) :
       /\ IsDecimalWithCommas(Items[i].price) =>
            calculateItemTotal(Items[i])
              = NumMul(Items[i].amount, DecimalValue(Items[i].price))
       /\ Items[i].price = <<>> => calculateItemTotal(Items[i]) = Num(0)
  /\ SampleRowsAgree

C10_Witness ==
  /\ loaded = Absent
  /\ \E i \in 1..Len(Items) :
       /\ Items[i].amount = Num(3)
       /\ Items[i].price = ThousandPrice
       /\ calculateItemTotal(Items[i]) = Num(3000)

\* items without its i-th row.
LedgerWithout(items, i) == SubSeq(items, 1, i - 1) \o SubSeq(items, i + 1, Len(items))

\* C11: a row whose price is not numeric once its commas are dropped has line
\* total 0 and adds 0 to the grand total: the grand total is that of the
\* ledger without the row.
C11_NonNumericPriceCountsZero ==
  \A i \in 1..Len(Items) :
    StringToNumber(removeComma(Items[i].price)) = NaN =>
      /\ calculateItemTotal(Items[i]) = Num(0)
      /\ calculateGrandTotal(Items) = calculateGrandTotal(LedgerWithout(Items, i))

\* The keys of the five step payloads of a FormData.
PayloadFields ==
  [step1 |-> {"name", "email"},
   step2 |-> {"age", "gender"},
   step3 |-> {"bio"},
   step4 |-> {"items"},
   step5 |-> {"signatureImage"}]

\* doc has the five payloads and each payload has each of its fields; the
\* signature image is a string or null.
FullyPopulated(doc) ==
  /\ DOMAIN doc = DOMAIN PayloadFields
  /\ \A step \in DOMAIN PayloadFields : DOMAIN doc[step] = PayloadFields[step]
  /\ doc.step5.signatureImage.k \in {"null", "str"}

\* C12: in every state, from the first render on and directly after the
\* document restored from a parseable stored value is rendered, the working
\* document has all five payloads with all their fields: no part is undefined.
C12_DocumentFullyPopulated == FullyPopulated(formData)

Signature == formData.step5.signatureImage

\* C13: a selected file larger than 2 MiB is refused at once, and one whose
\* decoded picture is narrower than 500 or lower than 250 is refused when its
\* decode completes: the step raises the error toast and leaves src as it was.
\* A file of at most 2 MiB goes to the decoder (src still as it was), and when
\* the decode of a picture of at least 500x250 completes it becomes src.
C13_SelectFileAcceptsOrRejects ==
  [][/\ \A file \in FileInputs :
          SelectFile(file) =>
            IF file.size > 2 * 1024 * 1024
            THEN /\ toast' = "error"
                 /\ src' = src
                 /\ decoding' = decoding
            ELSE /\ src' = src
                 /\ decoding' = Append(decoding, file)
     /\ \A i \in 1..Len(decoding) :
          FileDecoded(i) =>
            IF decoding[i].naturalWidth < 500 \/ decoding[i].naturalHeight < 250
            THEN /\ toast' = "error"
                 /\ src' = src
            ELSE src' = DataURL(decoding[i])]_vars

\* A file of exactly 2 MiB and 500x250 is the preview, and a later selection
\* has been refused without replacing it.
C13_Witness ==
  /\ isOpenCrop
  /\ \E file \in FileInputs :
       /\ file.size = 2 * 1024 * 1024
       /\ file.naturalWidth = 500
       /\ file.naturalHeight = 250
       /\ src = DataURL(file)
       /\ imgRef = LoadedImg(file)
  /\ selects = 2
  /\ decoding = <<>>
  /\ toast = "error"
  /\ cropVariable = DefaultCrop
  /\ emitted = <<>>

\* C14: the cropper's Save emits - the signature becomes the cropped image -
\* exactly when an img element is there, the region has non-zero width and
\* height and the picture the element shows is at least 500x250; in every
\* other case it raises the error toast, emits nothing and leaves the
\* document, and with it the signature, as it was.
C14_CropEmitsOnlyWhenValid ==
  [][CropImage =>
       IF /\ imgRef # null
          /\ cropVariable.width # 0
          /\ cropVariable.height # 0
          /\ imgRef.naturalWidth >= 500
          /\ imgRef.naturalHeight >= 250
       THEN /\ emitted' = Append(emitted, JpegDataURL(imgRef, cropVariable))
            /\ formData'.step5.signatureImage = JpegDataURL(imgRef, cropVariable)
       ELSE /\ toast' = "error"
            /\ emitted' = emitted
            /\ formData' = formData]_vars

\* The cropper has emitted once; then, with the region at zero size, its Save
\* raised the error and the signature is still the emitted image.
C14_Witness ==
  /\ isOpenCrop
  /\ selects = 1
  /\ Len(emitted) = 1
  /\ Signature = emitted[1]
  /\ src # null
  /\ CropRegionEmpty(cropVariable)
  /\ toast = "error"

\* C15: once an image has been emitted, by the pad's save or by the cropper,
\* the signature of the working document is the image emitted last.
C15_LastEmissionWins ==
  emitted # <<>> => Signature = emitted[Len(emitted)]

\* A drawn signature was saved, then the cropper emitted: the signature is
\* the cropped image.
C15_Witness ==
  /\ Len(emitted) = 2
  /\ emitted[1] = PngDataURL("drawn")
  /\ \E file \in FileInputs : emitted[2] = JpegDataURL(LoadedImg(file), DefaultCrop)
  /\ Signature = emitted[2]
  /\ Signature # emitted[1]

ItemFields == {"id", "amount", "price", "description"}

\* Ids no row of the ledger has.
AbsentIds == (0..(MaxEvents + 3)) \ RenderedIds

\* C16: an update made through the inputs of the row with a given id changes
\* one row with that id, in the named field only, and no other row; the length
\* and order of the ledger stay.  updateItem with an id no row has returns the
\* ledger as it is.
C16_UpdateItemFrame ==
  /\ [](\A id \in AbsentIds : \A field \in ItemFields \ {"id"} :
          \A value \in ItemFieldInputs(field) :
            updateItem(Items, id, field, value) = Items)
  /\ [][\A id \in RenderedIds : \A field \in ItemFields \ {"id"} :
          \A value \in ItemFieldInputs(field) :
            UpdateItem(id, field, value) =>
              /\ Len(Items') = Len(Items)
              /\ \E k \in 1..Len(Items) :
                   /\ Items[k].id = id
                   /\ \A g \in ItemFields \ {field} : Items'[k][g] = Items[k][g]
                   /\ \A j \in (1..Len(Items)) \ {k} : Items'[j] = Items[j]]_vars

\* C17: the Remove button of the row with a given id takes one row with that
\* id out of the ledger: the ledger is one row shorter and the other rows are
\* as they were, in their order.  removeItem with an id no row has returns
\* the ledger as it is.
C17_RemoveItemFrame ==
  /\ [](\A id \in AbsentIds : removeItem(Items, id) = Items)
  /\ [][\A id \in RenderedIds :
          RemoveItem(id) =>
            /\ Len(Items') = Len(Items) - 1
            /\ \E k \in 1..Len(Items) :
                 /\ Items[k].id = id
                 /\ Items' = LedgerWithout(Items, k)]_vars

\* C18: in every state the rows of the ledger have pairwise distinct ids.
C18_LedgerIdsDistinct ==
  \A i \in 1..Len(Items) : \A j \in 1..Len(Items) :
    i # j => Items[i].id # Items[j].id

\* C19: an update of the quantity stores an integer, whatever string the
\* input gave; an update of the price or of the description stores the given
\* string.
C19_QuantityStoredAsInteger ==
  [][\A id \in RenderedIds : \A field \in ItemFields \ {"id"} :
       \A value \in ItemFieldInputs(field) :
         UpdateItem(id, field, value) =>
           \A k \in 1..Len(Items) :
             Items[k].id = id =>
               IF field = "amount"
               THEN /\ Items'[k].amount.k = "num"
                    /\ Items'[k].amount.d = 1
               ELSE Items'[k][field] = value]_vars

\* C20: the pad's Save can be pressed while the pad is marked empty; whatever
\* the mark says, Save emits the image of the canvas, which becomes the
\* signature, and closes the dialog.  Clear marks the pad empty and leaves the
\* working document and the stored value as they were.
C20_SaveNotGuardedByEmptiness ==
  /\ []((/\ pc = "ready"
         /\ isOpenDraw
         /\ isEmpty
         /\ edits + submits + selects < MaxEvents) => ENABLED Save)
  /\ [][Save =>
          /\ formData'.step5.signatureImage = PngDataURL(canvas)
          /\ emitted' = Append(emitted, PngDataURL(canvas))
          /\ ~isOpenDraw']_vars
  /\ [][Clear =>
          /\ isEmpty'
          /\ formData' = formData
          /\ localStorage' = localStorage]_vars

\* A drawn signature was saved; the pad was opened again, cleared and saved:
\* the signature is the image of the blank canvas.
C20_Witness ==
  /\ emitted = <<PngDataURL("drawn"), PngDataURL("blank")>>
  /\ isEmpty
  /\ ~isOpenDraw
  /\ Signature = PngDataURL("blank")
  /\ localStorage = JSONstringify(formData)

\* C21: Next and Previous leave the working document and the stored value as
\* they are; a step that mutates a field leaves currentStep as it is; a press
\* of Submit and the outcome of a submission, success or failure, leave
\* currentStep and the working document as they are.
C21_NavigationAndMutationIndependent ==
  [][/\ (NextStep \/ PrevStep) =>
          /\ formData' = formData
          /\ localStorage' = localStorage
     /\ edits' > edits => currentStep' = currentStep
     /\ (submits' > submits \/ Len(inflight') < Len(inflight)) =>
          /\ currentStep' = currentStep
          /\ formData' = formData]_vars

\* A name typed at step 1 was carried to step 5 and submitted with success:
\* the step is still 5 and the document still holds the name.
C21_Witness ==
  /\ loaded = Absent
  /\ currentStep = 5
  /\ edits = 1
  /\ submits = 1
  /\ inflight = <<>>
  /\ toast = "success"
  /\ formData.step1.name = "a"
  /\ localStorage = Absent

\* C22: from the start of mount until the first mutation or submission, the
\* key holds the parseable document it held when the page loaded - in every
\* state between the mount effects too, whether they run once or twice.
C22_MountKeepsStoredDocument ==
  (edits = 0 /\ submits = 0 /\ JSONparses(loaded)) => localStorage = loaded

\* After a mount whose effects ran twice the saved document is gone for good:
\* the working document and the key both hold the default document.
MountLostSavedDocument ==
  /\ pc = "ready"
  /\ loaded = JSONstringify(SavedDocument)
  /\ formData = initialFormData
  /\ localStorage = JSONstringify(initialFormData)

\* C23: whenever the success response of a pending submission removes the key
\* from storage, the document sent in that request is the working document of
\* that moment - whatever was mutated, navigated or submitted while the
\* request was in flight.
C23_SuccessDiscardsNothingUnsent ==
  [][\A i \in 1..Len(inflight) :
       (SubmitSettled(i, "ok") /\ localStorage' = Absent) =>
         inflight[i].body = JSONstringify(formData)]_vars

\* C24: in the open cropper, once no selected file is still being decoded,
\* the preview is the file selected last if that file passes the size and
\* dimension tests - in whatever order the decodes of it and of the files
\* selected before it completed.
C24_LaterSelectionDecidesPreview ==
  (/\ isOpenCrop
   /\ decoding = <<>>
   /\ lastSelected # null
   /\ ~FileTooLarge(lastSelected)
   /\ ~TooSmall(lastSelected)) => src = DataURL(lastSelected)

====
